---- MODULE Spec2Model ----
(***************************************************************************)
(* Model of the lock-free single-writer / multi-reader skip list           *)
(* SkipListAtomicSingleWriter (src/include/skiplist_atomic_sw.hpp).         *)
(*                                                                         *)
(* The heap, nodes, maps the addresses of the allocated nodes to Node       *)
(* records.  The code never inspects an address, so which fresh address    *)
(* `new` returns is immaterial: the j-th node allocated with key k gets    *)
(* the address <<k, j>> and the i-th sentinel <<0, i>>.  nullptr is <<>>.  *)
(* std::optional is a sequence of length at most one: <<>> is std::nullopt *)
(* and <<x>> holds x.  A node's v is <<>> as long as nothing was stored    *)
(* into the std::atomic<TVal> (the sentinels).                             *)
(* Every atomic load and every atomic store of upsert and find is one      *)
(* step; the steps of the threads interleave (sequentially consistent      *)
(* atomics).  The plain fields k and down are written before the release   *)
(* store that publishes their node and never afterwards.                   *)
(*                                                                         *)
(* Spec         one writer thread and one reader thread                    *)
(* HistSpec     Spec, recording the values of all upsert calls per key     *)
(* PureSpec     Spec, recording the result of a reader's undisturbed find  *)
(* LinSpec      Spec, recording whether a find started after the leaf of   *)
(*              its key was linked in                                      *)
(* FairSpec     Spec with weak fairness of the reader's steps              *)
(* LifeSpec     Spec with clear and with the constructor called with 0     *)
(* WriterSpec   the writer thread alone, towers of up to MaxHeight+1       *)
(*              levels                                                     *)
(* SeqSpec      the writer thread alone, every upsert call repeated on a   *)
(*              SkipList (src/include/skiplist.hpp) with the same coins    *)
(* ClearSpec    SeqSpec with clear and the destructor of both variants     *)
(* TwoWriterSpec  two writer threads in upsert for different keys          *)
(* RelaxedSpec  writer and reader on one key, towers of up to MaxHeight+1  *)
(*              levels; a relaxed store into the v of a published node     *)
(*              reaches the reader late, in any order across nodes         *)
(***************************************************************************)
EXTENDS Integers, Sequences, FiniteSets, TLC

\* ---------------------------------------------------------------- bounds
MaxHeight == 2
MaxKey == 3
MaxVal == 2

Heights == 1..MaxHeight
Keys == 1..MaxKey
FindKeys == 0..(MaxKey + 1)
Vals == 1..MaxVal
Writers == {"w1"}
Readers == {"r1"}

\* nodes, heads: the index.  height: the constructor's argument.
\* wr, rd: the writer and reader threads, each at one place of upsert or find.
\* lastv, started: per key, the value of the latest upsert call and the values of
\* all upsert calls so far (history).  ghost: which histories a specification
\* records, and whether its relaxed stores into v may reach a reader late, fixed
\* by its initial state.
\* seqList: a SkipList (src/include/skiplist.hpp) of the same height, on which
\* a specification that compares the two variants repeats every upsert call.
VARIABLES nodes, heads, height, wr, rd, lastv, started, ghost, seqList

vars == <<nodes, heads, height, wr, rd, lastv, started, ghost, seqList>>

\* ------------------------------------------------------------- optionals
nullopt == <<>>
Some(x) == <<x>>
HasValue(o) == Len(o) = 1
Value(o) == o[1]

\* faulty variant of OptGreater: `>=` for `>`
OptGreaterEq(o, k) == HasValue(o) /\ Value(o) >= k

\* operator>(const optional<T>&, const U&): an empty optional is not greater
OptGreater(o, k) == HasValue(o) /\ Value(o) > k

\* faulty variant of KeyIs: `<=` for `==`
KeyIsLessEq(n, k) == HasValue(nodes[n].k) /\ Value(nodes[n].k) <= k

\* `n->k && n->k == k`
KeyIs(n, k) == HasValue(nodes[n].k) /\ Value(nodes[n].k) = k

\* ------------------------------------------------------------------ Node
nullptr == <<>>
\* the address `new` returns for a node of arena a (0: sentinels, k: key k) on
\* heap h: the next one of the arena
New(h, a) == <<a, Cardinality({p \in DOMAIN h : p[1] = a}) + 1>>
\* heap h with the node n at the address p
Alloc(h, p, n) == [q \in DOMAIN h \cup {p} |-> IF q = p THEN n ELSE h[q]]
\* `delete p`: the node at p leaves the heap; an address outside DOMAIN nodes
\* is a released (dangling) one
Free(h, p) == [q \in DOMAIN h \ {p} |-> h[q]]
Node(down, next, k, val) == [down |-> down, next |-> next, k |-> Some(k), v |-> Some(val)]
SentinelNode(down, next) == [down |-> down, next |-> next, k |-> nullopt, v |-> nullopt]

\* ----------------------------------------------------------- constructor
\* the loop of the constructor from iteration i on: a sentinel is created with
\* down = nullptr, the sentinel before it (prev) gets it as its down, and it is
\* pushed onto heads.  st = [nodes, heads].
RECURSIVE ConstructLoop(_, _, _, _)
ConstructLoop(i, h, prev, st) ==
  IF i >= h
  THEN st
  ELSE LET newNode == New(st.nodes, 0)
           made == Alloc(st.nodes, newNode, SentinelNode(nullptr, nullptr))
           linked == IF prev # nullptr THEN [made EXCEPT ![prev].down = newNode] ELSE made
       IN ConstructLoop(i + 1, h, newNode,
                        [nodes |-> linked, heads |-> Append(st.heads, newNode)])

Construct(h) == ConstructLoop(0, h, nullptr, [nodes |-> <<>>, heads |-> <<>>])

\* ------------------------------------------- SkipList (skiplist.hpp)
\* The sequential variant on a heap h of its own.  Its calls run to completion:
\* it has one thread.  A std::unique_ptr is the address it owns, or nullptr.
SeqNode(down, next, k, v) == [down |-> down, next |-> next, k |-> k, v |-> v]

\* ~Node and the delete of std::unique_ptr: the node at p is released, and with
\* it the chain its next owns.  st = [nodes, fault]; the delete of a node that
\* is released already is undefined behaviour (fault)
RECURSIVE SeqDelete(_, _)
SeqDelete(st, p) ==
  IF p = nullptr
  THEN st
  ELSE IF p \notin DOMAIN st.nodes
  THEN [st EXCEPT !.fault = TRUE]
  ELSE SeqDelete([st EXCEPT !.nodes = Free(@, p)], st.nodes[p].next)

\* the loop of SkipList(height) from iteration i on
RECURSIVE SeqConstructLoop(_, _, _, _)
SeqConstructLoop(i, h, prev, st) ==
  IF i >= h
  THEN st
  ELSE LET newNode == New(st.nodes, 0)
           made == Alloc(st.nodes, newNode, SeqNode(nullptr, nullptr, nullopt, nullopt))
           linked == IF prev # nullptr THEN [made EXCEPT ![prev].down = newNode] ELSE made
       IN SeqConstructLoop(i + 1, h, newNode,
                           [nodes |-> linked, heads |-> Append(st.heads, newNode)])

SeqConstruct(h) == SeqConstructLoop(0, h, nullptr, [nodes |-> <<>>, heads |-> <<>>])

\* findInLevel on heap h
RECURSIVE SeqFindInLevel(_, _, _)
SeqFindInLevel(h, current, k) ==
  LET next == h[current].next
  IN IF next = nullptr \/ OptGreater(h[next].k, k)
     THEN current
     ELSE SeqFindInLevel(h, next, k)

\* faulty variant of SeqChainNode: newNode->next is not set, and the assignment
\* to previous->next releases the chain it owned
SeqChainNodeNoMove(h, previous, newNode) ==
  LET kept == SeqDelete([nodes |-> h, fault |-> FALSE], h[previous].next).nodes
  IN [kept EXCEPT ![previous].next = newNode]

\* chainNode: newNode->next = std::move(previous->next) leaves previous->next
\* null, previous->next = std::move(newNode) then owns the new node
SeqChainNode(h, previous, newNode) ==
  LET moved == [h EXCEPT ![newNode].next = h[previous].next, ![previous].next = nullptr]
  IN [moved EXCEPT ![previous].next = newNode]

\* upsertRec on heap h; coins are the outcomes of the calls of rand() to come,
\* more counts the calls made past them, which yield 0.  The result is the heap,
\* the returned node, the outcomes not used and the count.
RECURSIVE SeqUpsertRec(_, _, _, _, _, _)
SeqUpsertRec(h, current, k, v, coins, more) ==
  IF current = nullptr
  THEN [nodes |-> h, ret |-> nullptr, coins |-> coins, more |-> more]
  ELSE LET insertNode == SeqFindInLevel(h, current, k)
       IN IF HasValue(h[insertNode].k) /\ Value(h[insertNode].k) = k
          THEN LET r == SeqUpsertRec([h EXCEPT ![insertNode].v = Some(v)],
                                     h[insertNode].down, k, v, coins, more)
               IN [r EXCEPT !.ret = nullptr]
          ELSE IF h[insertNode].down = nullptr
          THEN LET newNode == New(h, k)
                   made == Alloc(h, newNode, SeqNode(nullptr, nullptr, Some(k), Some(v)))
               IN [nodes |-> SeqChainNode(made, insertNode, newNode), ret |-> newNode,
                   coins |-> coins, more |-> more]
          ELSE LET r == SeqUpsertRec(h, h[insertNode].down, k, v, coins, more)
                   coin == IF r.coins = <<>> THEN 0 ELSE Head(r.coins)
                   rest == IF r.coins = <<>> THEN <<>> ELSE Tail(r.coins)
                   past == r.more + (IF r.coins = <<>> THEN 1 ELSE 0)
               IN IF r.ret = nullptr
                  THEN r
                  ELSE IF coin = 1
                  THEN LET newNode == New(r.nodes, k)
                           made == Alloc(r.nodes, newNode,
                                         SeqNode(r.ret, nullptr, Some(k), Some(v)))
                       IN [nodes |-> SeqChainNode(made, insertNode, newNode),
                           ret |-> newNode, coins |-> rest, more |-> past]
                  ELSE [r EXCEPT !.ret = nullptr, !.coins = rest, !.more = past]

\* find on heap h with the levels hd
RECURSIVE SeqFindLoop(_, _, _)
SeqFindLoop(h, m, k) ==
  IF h[m].down # nullptr
  THEN IF HasValue(h[m].k) /\ Value(h[m].k) = k
       THEN [has |-> TRUE, val |-> h[m].v]
       ELSE SeqFindLoop(h, SeqFindInLevel(h, h[m].down, k), k)
  ELSE IF ~HasValue(h[m].k) \/ Value(h[m].k) # k
       THEN [has |-> FALSE, val |-> nullopt]
       ELSE [has |-> TRUE, val |-> h[m].v]

SeqFind(h, hd, k) == SeqFindLoop(h, SeqFindInLevel(h, hd[1], k), k)

\* the inner loop of clear: clearPointer = std::move(clearPointer->next) takes
\* the next out of the node clearPointer owns and releases that node
RECURSIVE SeqClearChain(_, _)
SeqClearChain(st, clearPointer) ==
  IF clearPointer = nullptr
  THEN st
  ELSE IF clearPointer \notin DOMAIN st.nodes
  THEN [st EXCEPT !.fault = TRUE]
  ELSE LET next == st.nodes[clearPointer].next
           taken == [st EXCEPT !.nodes[clearPointer].next = nullptr]
       IN SeqClearChain(SeqDelete(taken, clearPointer), next)

\* the outer loop of clear from level i on: clearPointer = std::move(heads[i]->next)
\* leaves the sentinel without a next
RECURSIVE SeqClearLoop(_, _, _)
SeqClearLoop(i, hd, st) ==
  IF i > Len(hd)
  THEN st
  ELSE IF hd[i] \notin DOMAIN st.nodes
  THEN [st EXCEPT !.fault = TRUE]
  ELSE SeqClearLoop(i + 1, hd,
                    SeqClearChain([st EXCEPT !.nodes[hd[i]].next = nullptr],
                                  st.nodes[hd[i]].next))

\* heads.clear(): the vector destroys its elements from element i on, each of
\* which releases the sentinel it owns
RECURSIVE SeqHeadsClear(_, _, _)
SeqHeadsClear(i, hd, st) ==
  IF i > Len(hd) THEN st ELSE SeqHeadsClear(i + 1, hd, SeqDelete(st, hd[i]))

\* clear() on heap h with the levels hd
SeqClear(h, hd) ==
  SeqHeadsClear(1, hd, SeqClearLoop(1, hd, [nodes |-> h, fault |-> FALSE]))

\* no upsert call is repeated on the sequential variant
NoCall == <<>>
\* the state after SkipList(h): fault is set by undefined behaviour, live is
\* reset by the destructor
SeqConstructed(h) ==
  [nodes |-> SeqConstruct(h).nodes, heads |-> SeqConstruct(h).heads,
   call |-> NoCall, coins |-> <<>>, more |-> 0, fault |-> FALSE, live |-> TRUE]

\* ------------------------------------------------------------ findInLevel
\* faulty variant of FindInLevelLoad: the loop does not move on
FindInLevelLoadStuck(current, k) ==
  LET next == nodes[current].next
  IN IF next = nullptr \/ OptGreater(nodes[next].k, k)
     THEN [stop |-> TRUE, node |-> current]
     ELSE [stop |-> FALSE, node |-> current]

\* faulty variant of FindInLevelLoad: `next->k >= k` for `next->k > k`, other uses
\* of the comparison left alone
FindInLevelLoadBefore(current, k) ==
  LET next == nodes[current].next
  IN IF next = nullptr \/ (HasValue(nodes[next].k) /\ Value(nodes[next].k) >= k)
     THEN [stop |-> TRUE, node |-> current]
     ELSE [stop |-> FALSE, node |-> next]

\* one iteration of findInLevel: the acquire load of current->next and the loop
\* test.  stop = TRUE: the loop ends and findInLevel returns node.
FindInLevelLoad(current, k) ==
  LET next == nodes[current].next
  IN IF next = nullptr \/ OptGreater(nodes[next].k, k)
     THEN [stop |-> TRUE, node |-> current]
     ELSE [stop |-> FALSE, node |-> next]

\* findInLevel run to completion with no store in between
RECURSIVE findInLevel(_, _)
findInLevel(current, k) ==
  LET r == FindInLevelLoad(current, k)
  IN IF r.stop THEN r.node ELSE findInLevel(r.node, k)

\* ------------------------------------------------------------------- find
\* faulty variant of FindDecide: the key test after the loop is missing
FindDecideNoKeyTest(m, k) ==
  IF nodes[m].down # nullptr
  THEN IF KeyIs(m, k) THEN "load" ELSE "down"
  ELSE "load"

\* faulty variant of FindDecide: no descent from a level that lacks the key
FindDecideNoDescent(m, k) ==
  IF ~KeyIs(m, k) THEN "absent" ELSE "load"

\* what find does with the node findInLevel returned: "load" = return its value,
\* "absent" = return nullopt, "down" = search the next level from node->down
FindDecide(m, k) ==
  IF nodes[m].down # nullptr
  THEN IF KeyIs(m, k) THEN "load" ELSE "down"
  ELSE IF ~KeyIs(m, k) THEN "absent" ELSE "load"

Absent == [has |-> FALSE, val |-> nullopt]
Returned(val) == [has |-> TRUE, val |-> val]
Found(n) == [has |-> TRUE, val |-> nodes[n].v]

RECURSIVE FindLoop(_, _)
FindLoop(m, k) ==
  LET d == FindDecide(m, k)
  IN IF d = "load" THEN Found(m)
     ELSE IF d = "absent" THEN Absent
     ELSE FindLoop(findInLevel(nodes[m].down, k), k)

\* find run to completion with no store in between
find(k) == FindLoop(findInLevel(heads[1], k), k)

\* ---------------------------------------------------------- thread states
\* stale is history: another thread stored into previous->next after this
\* one's chainNode loaded it
WIdle == [pc |-> "idle", k |-> 0, v |-> 0, current |-> nullptr, stack |-> <<>>,
          newNode |-> nullptr, stale |-> FALSE]
NoPrev == [valid |-> FALSE, res |-> Absent]
\* expect, clean and prev are history: the value a find is bound to return (it
\* started after the latest upsert of its key returned), whether no store hit the
\* index since the find started, and the result of the reader's previous find
\* of the same key if no store hit the index since that one started.  lin is
\* history too: the value of the latest upsert of the find's key if the find
\* started after that upsert linked a new leaf into the bottom level, or returned.
\* cache holds, per node, the value the reader still reads from the node's v
\* after a relaxed store of the writer that has not reached the reader yet.
\* got and before are history: the node the value of a find was loaded from and
\* whether it was the node's latest value and that of the latest upsert call of
\* the key, and the same of the reader's previous find of the key
NoGot == [node |-> nullptr, new |-> FALSE]
RIdle == [pc |-> "idle", k |-> 0, current |-> nullptr, res |-> Absent,
          expect |-> nullopt, clean |-> TRUE, prev |-> NoPrev, lin |-> nullopt,
          cache |-> <<>>, got |-> NoGot, before |-> NoGot]

\* the state after SkipListAtomicSingleWriter(h), every thread outside any call
Constructed(h) ==
  /\ height = h
  /\ nodes = Construct(h).nodes
  /\ heads = Construct(h).heads
  /\ wr = [t \in Writers |-> WIdle]
  /\ rd = [t \in Readers |-> RIdle]
  /\ started = [k \in Keys |-> {}]
  /\ lastv = [k \in Keys |-> nullopt]
  /\ seqList = SeqConstructed(h)

Init == (\E h \in Heights : Constructed(h)) /\ ghost = {}
InitHist == (\E h \in Heights : Constructed(h)) /\ ghost = {"started"}
InitPure == (\E h \in Heights : Constructed(h)) /\ ghost = {"pure"}
InitLin == (\E h \in Heights : Constructed(h)) /\ ghost = {"lin"}
InitRelaxed == (\E h \in 1..(MaxHeight + 1) : Constructed(h)) /\ ghost = {"relaxed"}

\* the readers after a release store of the writer: it orders the stores before
\* it, none of which is late for a reader any more
Published ==
  IF "relaxed" \in ghost
  THEN [t \in Readers |-> [rd[t] EXCEPT !.cache = <<>>]]
  ELSE rd

\* the readers after the relaxed store of a value into the v of node n, which
\* held old: a reader may go on reading the value it could read so far
Stored(n, old) ==
  [t \in Readers |->
     IF n \in DOMAIN rd[t].cache
     THEN rd[t]
     ELSE [rd[t] EXCEPT !.cache = Alloc(rd[t].cache, n, old)]]

\* the readers after a store of the writer hit the index
Disturbed ==
  IF "pure" \in ghost
  THEN [t \in Readers |-> [rd[t] EXCEPT !.clean = FALSE, !.prev = NoPrev]]
  ELSE rd

\* the sequential variant's side of upsert(k, v) being called, and of rand()
\* returning coin: where the variants are compared, the call and the outcome
\* are kept for the sequential variant
Called(k, v) ==
  IF "seq" \in ghost THEN [seqList EXCEPT !.call = <<k, v>>, !.coins = <<>>] ELSE seqList

Flipped(coin) ==
  IF "seq" \in ghost THEN [seqList EXCEPT !.coins = Append(@, coin)] ELSE seqList

\* the readers after upsert(k, v) started: a find of k in flight is no longer bound
\* to the value of the upsert before
Overtaken(k) ==
  [t \in Readers |->
     IF rd[t].pc \in {"findInLevel", "load"} /\ rd[t].k = k
     THEN [rd[t] EXCEPT !.expect = nullopt, !.lin = nullopt, !.got = NoGot, !.before = NoGot]
     ELSE IF rd[t].k = k
     THEN [rd[t] EXCEPT !.got = NoGot, !.before = NoGot]
     ELSE rd[t]]

\* ----------------------------------------------------------------- upsert
\* upsert(k, v): upsertRec(heads[0], k, v) up to the call of findInLevel
upsert(t, k, v) ==
  /\ wr[t].pc = "idle"
  /\ Len(heads) >= 1
  /\ wr' = [wr EXCEPT ![t] = [WIdle EXCEPT !.pc = "findInLevel", !.k = k, !.v = v,
                                            !.current = heads[1]]]
  /\ started' = IF "started" \in ghost THEN [started EXCEPT ![k] = @ \cup {v}] ELSE started
  /\ lastv' = [lastv EXCEPT ![k] = Some(v)]
  /\ rd' = Overtaken(k)
  /\ seqList.call = NoCall
  /\ seqList' = Called(k, v)
  /\ UNCHANGED <<nodes, heads, height, ghost>>

\* one iteration of the writer's findInLevel
upsertFindInLevel(t) ==
  /\ wr[t].pc = "findInLevel"
  /\ LET r == FindInLevelLoad(wr[t].current, wr[t].k)
     IN wr' = [wr EXCEPT ![t].current = r.node,
                         ![t].pc = IF r.stop THEN "upsertRec" ELSE "findInLevel"]
  /\ UNCHANGED <<nodes, heads, height, rd, lastv, started, ghost, seqList>>

\* faulty variant of Return: upsert itself promotes the candidate the top level returns
ReturnPromoteTop(w, ret) ==
  IF ret = nullptr \/ (w.stack # <<>> /\ w.stack[Len(w.stack)].update)
  THEN WIdle
  ELSE IF w.stack = <<>>
  THEN [w EXCEPT !.pc = "promote", !.current = heads[1], !.newNode = ret]
  ELSE [w EXCEPT !.pc = "promote", !.current = w.stack[Len(w.stack)].node,
                 !.stack = SubSeq(w.stack, 1, Len(w.stack) - 1),
                 !.newNode = ret]

\* the writer's state when upsertRec returns `ret` to the frame on top of the
\* stack.  A frame is [node |-> insertNode, update |-> called from the update
\* case].  nullptr makes every caller return nullptr (the update case ignores the
\* result and returns nullptr): the upsert is over.  A node returned to the
\* insert case is the promotion candidate of that frame.
Return(w, ret) ==
  IF ret = nullptr \/ w.stack = <<>> \/ w.stack[Len(w.stack)].update
  THEN WIdle
  ELSE [w EXCEPT !.pc = "promote", !.current = w.stack[Len(w.stack)].node,
                 !.stack = SubSeq(w.stack, 1, Len(w.stack) - 1),
                 !.newNode = ret]

\* the recursive call upsertRec(insertNode->down, k, v) from a frame
Call(w, update) ==
  IF nodes[w.current].down = nullptr
  THEN Return(w, nullptr)
  ELSE [w EXCEPT !.pc = "findInLevel", !.current = nodes[w.current].down,
                 !.stack = Append(w.stack, [node |-> w.current, update |-> update])]

\* faulty variant of upsertRecUpdate: the value is stored in the leaf node only
upsertRecUpdateLeafOnly(t) ==
  /\ wr[t].pc = "upsertRec"
  /\ KeyIs(wr[t].current, wr[t].k)
  /\ nodes' = IF nodes[wr[t].current].down = nullptr
              THEN [nodes EXCEPT ![wr[t].current].v = Some(wr[t].v)]
              ELSE nodes
  /\ wr' = [wr EXCEPT ![t] = Call(wr[t], TRUE)]
  /\ rd' = Disturbed
  /\ UNCHANGED <<heads, height, lastv, started, ghost, seqList>>

\* faulty variant of upsertRecUpdate: no recursion into down
upsertRecUpdateNoDescent(t) ==
  /\ wr[t].pc = "upsertRec"
  /\ KeyIs(wr[t].current, wr[t].k)
  /\ nodes' = [nodes EXCEPT ![wr[t].current].v = Some(wr[t].v)]
  /\ wr' = [wr EXCEPT ![t] = Return(wr[t], nullptr)]
  /\ rd' = Disturbed
  /\ UNCHANGED <<heads, height, lastv, started, ghost, seqList>>

\* update case: the relaxed store of v, then the recursion into down
upsertRecUpdate(t) ==
  /\ wr[t].pc = "upsertRec"
  /\ KeyIs(wr[t].current, wr[t].k)
  /\ nodes' = [nodes EXCEPT ![wr[t].current].v = Some(wr[t].v)]
  /\ wr' = [wr EXCEPT ![t] = Call(wr[t], TRUE)]
  /\ rd' = IF "relaxed" \in ghost
           THEN Stored(wr[t].current, nodes[wr[t].current].v)
           ELSE Disturbed
  /\ UNCHANGED <<heads, height, lastv, started, ghost, seqList>>

\* faulty variant of upsertRecLeaf: the new leaf is returned without chainNode
upsertRecLeafUnlinked(t) ==
  /\ wr[t].pc = "upsertRec"
  /\ ~KeyIs(wr[t].current, wr[t].k)
  /\ nodes[wr[t].current].down = nullptr
  /\ nodes' = Alloc(nodes, New(nodes, wr[t].k), Node(nullptr, nullptr, wr[t].k, wr[t].v))
  /\ wr' = [wr EXCEPT ![t] = Return(wr[t], New(nodes, wr[t].k))]
  /\ rd' = Disturbed
  /\ UNCHANGED <<heads, height, lastv, started, ghost, seqList>>

\* faulty variant of upsertRecLeaf: new Node(insertNode, nullptr, k, v)
upsertRecLeafDown(t) ==
  /\ wr[t].pc = "upsertRec"
  /\ ~KeyIs(wr[t].current, wr[t].k)
  /\ nodes[wr[t].current].down = nullptr
  /\ nodes' = Alloc(nodes, New(nodes, wr[t].k),
                    Node(wr[t].current, nullptr, wr[t].k, wr[t].v))
  /\ wr' = [wr EXCEPT ![t].pc = "chainLoad", ![t].newNode = New(nodes, wr[t].k)]
  /\ rd' = Disturbed
  /\ UNCHANGED <<heads, height, lastv, started, ghost, seqList>>

\* insert at the leaf level: new Node(nullptr, nullptr, k, v)
upsertRecLeaf(t) ==
  /\ wr[t].pc = "upsertRec"
  /\ ~KeyIs(wr[t].current, wr[t].k)
  /\ nodes[wr[t].current].down = nullptr
  /\ nodes' = Alloc(nodes, New(nodes, wr[t].k), Node(nullptr, nullptr, wr[t].k, wr[t].v))
  /\ wr' = [wr EXCEPT ![t].pc = "chainLoad", ![t].newNode = New(nodes, wr[t].k)]
  /\ rd' = Disturbed
  /\ UNCHANGED <<heads, height, lastv, started, ghost, seqList>>

\* childNode = upsertRec(insertNode->down, k, v)
upsertRecDescend(t) ==
  /\ wr[t].pc = "upsertRec"
  /\ ~KeyIs(wr[t].current, wr[t].k)
  /\ nodes[wr[t].current].down # nullptr
  /\ wr' = [wr EXCEPT ![t] = Call(wr[t], FALSE)]
  /\ UNCHANGED <<nodes, heads, height, rd, lastv, started, ghost, seqList>>

\* faulty variant of chainNodeLoad: newNode->next is left nullptr
chainNodeLoadSkip(t) ==
  /\ wr[t].pc = "chainLoad"
  /\ wr' = [wr EXCEPT ![t].pc = "chainStore"]
  /\ UNCHANGED <<nodes, heads, height, rd, lastv, started, ghost, seqList>>

\* faulty variant of chainNodeLoad: previous->next is stored first, newNode->next
\* is not set yet
chainNodeLoadPublish(t) ==
  /\ wr[t].pc = "chainLoad"
  /\ nodes' = [nodes EXCEPT ![wr[t].current].next = wr[t].newNode]
  /\ wr' = [wr EXCEPT ![t].pc = "chainStore"]
  /\ rd' = Disturbed
  /\ UNCHANGED <<heads, height, lastv, started, ghost, seqList>>

\* faulty variant of chainNodeLoad: the next of previous->next is taken
chainNodeLoadNextNext(t) ==
  /\ wr[t].pc = "chainLoad"
  /\ nodes' = [nodes EXCEPT ![wr[t].newNode].next =
                 IF nodes[wr[t].current].next = nullptr
                 THEN nullptr
                 ELSE nodes[nodes[wr[t].current].next].next]
  /\ wr' = [wr EXCEPT ![t].pc = "chainStore"]
  /\ rd' = Disturbed
  /\ UNCHANGED <<heads, height, lastv, started, ghost, seqList>>

\* chainNode, first statement: newNode->next.store(previous->next.load())
chainNodeLoad(t) ==
  /\ wr[t].pc = "chainLoad"
  /\ nodes' = [nodes EXCEPT ![wr[t].newNode].next = nodes[wr[t].current].next]
  /\ wr' = [wr EXCEPT ![t].pc = "chainStore", ![t].stale = FALSE]
  /\ rd' = Disturbed
  /\ UNCHANGED <<heads, height, lastv, started, ghost, seqList>>

\* the threads ws after thread t stored into previous->next: what a thread
\* between the two statements of its chainNode loaded from there is stale
Raced(t, ws) ==
  [u \in DOMAIN ws |->
     IF u # t /\ wr[u].pc = "chainStore" /\ wr[u].current = wr[t].current
     THEN [ws[u] EXCEPT !.stale = TRUE]
     ELSE ws[u]]

\* faulty variant of chainNodeStore: previous->next is loaded again and stored
\* into newNode->next in the step of the store
chainNodeStoreReload(t) ==
  /\ wr[t].pc = "chainStore"
  /\ nodes' = [nodes EXCEPT ![wr[t].newNode].next = nodes[wr[t].current].next,
                            ![wr[t].current].next = wr[t].newNode]
  /\ wr' = Raced(t, [wr EXCEPT ![t] = Return(wr[t], wr[t].newNode)])
  /\ rd' = IF "relaxed" \in ghost THEN Published ELSE Disturbed
  /\ UNCHANGED <<heads, height, lastv, started, ghost, seqList>>

\* faulty variant of chainNodeStore: the store waits until no reader stands on
\* previous
chainNodeStoreWaits(t) ==
  /\ wr[t].pc = "chainStore"
  /\ \A r \in Readers : rd[r].current # wr[t].current
  /\ nodes' = [nodes EXCEPT ![wr[t].current].next = wr[t].newNode]
  /\ wr' = [wr EXCEPT ![t] = Return(wr[t], wr[t].newNode)]
  /\ rd' = IF "relaxed" \in ghost THEN Published ELSE Disturbed
  /\ UNCHANGED <<heads, height, lastv, started, ghost, seqList>>

\* chainNode, second statement: previous->next.store(newNode), and the return
\* of newNode to the caller of upsertRec
chainNodeStore(t) ==
  /\ wr[t].pc = "chainStore"
  /\ nodes' = [nodes EXCEPT ![wr[t].current].next = wr[t].newNode]
  /\ wr' = Raced(t, [wr EXCEPT ![t] = Return(wr[t], wr[t].newNode)])
  /\ rd' = IF "relaxed" \in ghost THEN Published ELSE Disturbed
  /\ UNCHANGED <<heads, height, lastv, started, ghost, seqList>>

\* faulty variant of upsertRecPromote: insertNode->down for childNode
upsertRecPromoteAnchorDown(t) ==
  /\ wr[t].pc = "promote"
  /\ \E coin \in {0, 1} :
       IF coin = 1
       THEN /\ nodes' = Alloc(nodes, New(nodes, wr[t].k),
                                 Node(nodes[wr[t].current].down, nullptr, wr[t].k, wr[t].v))
            /\ wr' = [wr EXCEPT ![t].pc = "chainLoad", ![t].newNode = New(nodes, wr[t].k)]
            /\ rd' = Disturbed
            /\ seqList' = Flipped(coin)
       ELSE /\ nodes' = nodes
            /\ wr' = [wr EXCEPT ![t] = Return(wr[t], nullptr)]
            /\ rd' = rd
            /\ seqList' = Flipped(coin)
  /\ UNCHANGED <<heads, height, lastv, started, ghost>>

\* faulty variant of upsertRecPromote: childNode is returned when the coin declines
upsertRecPromotePassOn(t) ==
  /\ wr[t].pc = "promote"
  /\ \E coin \in {0, 1} :
       IF coin = 1
       THEN /\ nodes' = Alloc(nodes, New(nodes, wr[t].k),
                                 Node(wr[t].newNode, nullptr, wr[t].k, wr[t].v))
            /\ wr' = [wr EXCEPT ![t].pc = "chainLoad", ![t].newNode = New(nodes, wr[t].k)]
            /\ rd' = Disturbed
            /\ seqList' = Flipped(coin)
       ELSE /\ nodes' = nodes
            /\ wr' = [wr EXCEPT ![t] = Return(wr[t], wr[t].newNode)]
            /\ rd' = rd
            /\ seqList' = Flipped(coin)
  /\ UNCHANGED <<heads, height, lastv, started, ghost>>

\* `if (rand() & 1)`: new Node(childNode, nullptr, k, v), or return nullptr
upsertRecPromote(t) ==
  /\ wr[t].pc = "promote"
  /\ \E coin \in {0, 1} :
       IF coin = 1
       THEN /\ nodes' = Alloc(nodes, New(nodes, wr[t].k),
                                 Node(wr[t].newNode, nullptr, wr[t].k, wr[t].v))
            /\ wr' = [wr EXCEPT ![t].pc = "chainLoad", ![t].newNode = New(nodes, wr[t].k)]
            /\ rd' = Disturbed
            /\ seqList' = Flipped(coin)
       ELSE /\ nodes' = nodes
            /\ wr' = [wr EXCEPT ![t] = Return(wr[t], nullptr)]
            /\ rd' = rd
            /\ seqList' = Flipped(coin)
  /\ UNCHANGED <<heads, height, lastv, started, ghost>>

WriterStep(t) ==
  \/ upsertFindInLevel(t)
  \/ upsertRecUpdate(t)
  \/ upsertRecLeaf(t)
  \/ upsertRecDescend(t)
  \/ chainNodeLoad(t)
  \/ chainNodeStore(t)
  \/ upsertRecPromote(t)

\* the upsert of writer w is an insert past the chainNode of its leaf: at a coin
\* flip, or in the chainNode of a node of a higher level
PastLeaf(w) ==
  \/ wr[w].pc = "promote"
  \/ wr[w].pc \in {"chainLoad", "chainStore"} /\ nodes[wr[w].newNode].down # nullptr

\* ------------------------------------------------------------------- find
\* find(k) up to the first call of findInLevel
findCall(t, k) ==
  /\ rd[t].pc \in {"idle", "done"}
  /\ Len(heads) >= 1
  /\ rd' = [rd EXCEPT ![t] =
       [RIdle EXCEPT !.pc = "findInLevel", !.k = k, !.current = heads[1],
                     !.expect = IF \A w \in Writers : wr[w].pc = "idle" \/ wr[w].k # k
                                THEN lastv[k] ELSE nullopt,
                     !.lin = IF /\ "lin" \in ghost
                                /\ \A w \in Writers :
                                     wr[w].pc = "idle" \/ wr[w].k # k \/ PastLeaf(w)
                             THEN lastv[k] ELSE nullopt,
                     !.cache = rd[t].cache,
                     !.before = IF "relaxed" \in ghost /\ rd[t].pc = "done" /\ rd[t].k = k
                                THEN rd[t].got ELSE NoGot,
                     !.prev = IF "pure" \in ghost /\ rd[t].pc = "done" /\ rd[t].k = k /\ rd[t].clean
                              THEN [valid |-> TRUE, res |-> rd[t].res] ELSE NoPrev]]
  /\ UNCHANGED <<nodes, heads, height, wr, lastv, started, ghost, seqList>>

\* one iteration of the reader's findInLevel; when it returns, the tests of find
\* on the (immutable) key and down of the node it returned
findFindInLevel(t) ==
  /\ rd[t].pc = "findInLevel"
  /\ LET r == FindInLevelLoad(rd[t].current, rd[t].k)
         d == FindDecide(r.node, rd[t].k)
     IN rd' = [rd EXCEPT ![t] =
          IF ~r.stop THEN [@ EXCEPT !.current = r.node]
          ELSE IF d = "down" THEN [@ EXCEPT !.current = nodes[r.node].down]
          ELSE IF d = "absent" THEN [@ EXCEPT !.pc = "done", !.current = nullptr, !.res = Absent]
          ELSE [@ EXCEPT !.pc = "load", !.current = r.node]]
  /\ UNCHANGED <<nodes, heads, height, wr, lastv, started, ghost, seqList>>

\* faulty variant of findLoad: v.exchange(TVal{}) for v.load()
findLoadExchange(t) ==
  /\ rd[t].pc = "load"
  /\ rd' = [rd EXCEPT ![t].pc = "done", ![t].current = nullptr,
                      ![t].res = Found(rd[t].current),
                      ![t].cache = Free(rd[t].cache, rd[t].current),
                      ![t].got = IF "relaxed" \in ghost
                                 THEN [node |-> rd[t].current,
                                       new |-> nodes[rd[t].current].v = lastv[rd[t].k]]
                                 ELSE NoGot]
  /\ nodes' = [nodes EXCEPT ![rd[t].current].v = Some(0)]
  /\ UNCHANGED <<heads, height, wr, lastv, started, ghost, seqList>>

\* the value a relaxed load of the v of node n gives reader t
Loaded(t, n) ==
  IF n \in DOMAIN rd[t].cache THEN Returned(rd[t].cache[n]) ELSE Found(n)

\* return matchingNode->v.load(std::memory_order_relaxed)
findLoad(t) ==
  /\ rd[t].pc = "load"
  /\ rd' = [rd EXCEPT ![t].pc = "done", ![t].current = nullptr,
                      ![t].res = Loaded(t, rd[t].current),
                      ![t].got = IF "relaxed" \in ghost
                                 THEN [node |-> rd[t].current,
                                       new |-> /\ rd[t].current \notin DOMAIN rd[t].cache
                                               /\ nodes[rd[t].current].v = lastv[rd[t].k]]
                                 ELSE NoGot]
  /\ UNCHANGED <<nodes, heads, height, wr, lastv, started, ghost, seqList>>

ReaderStep(t) ==
  \/ findFindInLevel(t)
  \/ findLoad(t)

Next ==
  \/ \E t \in Writers, k \in Keys, v \in Vals : upsert(t, k, v)
  \/ \E t \in Writers : WriterStep(t)
  \/ \E t \in Readers, k \in Keys : findCall(t, k)
  \/ \E t \in Readers : ReaderStep(t)

Spec == Init /\ [][Next]_vars
HistSpec == InitHist /\ [][Next]_vars
PureSpec == InitPure /\ [][Next]_vars
LinSpec == InitLin /\ [][Next]_vars
\* a reader thread that is inside find keeps running; nothing is assumed of the
\* writer, which may run forever or stop anywhere
FairSpec == Init /\ [][Next]_vars /\ \A t \in Readers : WF_vars(ReaderStep(t))

\* -------------------------------------------------------------- lifecycle

\* the inner loop of clear from `current` on: delete current, go on with the
\* next that was loaded from it before.  st = [nodes, fault]; the delete of, or
\* the load from, a node that is released already is undefined behaviour
\* (fault), and the loop is not followed further
RECURSIVE ClearChain(_, _)
ClearChain(st, current) ==
  IF current = nullptr
  THEN st
  ELSE IF current \notin DOMAIN st.nodes
  THEN [st EXCEPT !.fault = TRUE]
  ELSE LET next == st.nodes[current].next
       IN ClearChain([st EXCEPT !.nodes = Free(@, current)], next)

\* the outer loop of clear from level i on (i = 1 is heads[0])
RECURSIVE ClearLoop(_, _, _)
ClearLoop(i, hd, st) ==
  IF i > Len(hd) THEN st ELSE ClearLoop(i + 1, hd, ClearChain(st, hd[i]))

\* faulty variant of clear: heads.clear() is missing
clearKeepHeads(t) ==
  /\ wr[t].pc = "idle"
  /\ \A r \in Readers : rd[r].pc \in {"idle", "done"}
  /\ LET st == ClearLoop(1, heads, [nodes |-> nodes, fault |-> FALSE])
     IN /\ nodes' = st.nodes
        /\ wr' = [wr EXCEPT ![t].pc = IF st.fault THEN "undefined" ELSE "idle"]
  /\ rd' = Disturbed
  /\ UNCHANGED <<heads, height, lastv, started, ghost, seqList>>

\* clear(), called by the thread that owns the index while no call of upsert or
\* find is in flight: every level's chain is released from its sentinel on, and
\* heads.clear() leaves no level.  After undefined behaviour nothing is known
\* of the thread.
clear(t) ==
  /\ wr[t].pc = "idle"
  /\ \A r \in Readers : rd[r].pc \in {"idle", "done"}
  /\ LET st == ClearLoop(1, heads, [nodes |-> nodes, fault |-> FALSE])
     IN /\ nodes' = st.nodes
        /\ wr' = [wr EXCEPT ![t].pc = IF st.fault THEN "undefined" ELSE "idle"]
  /\ heads' = <<>>
  /\ rd' = Disturbed
  /\ UNCHANGED <<height, lastv, started, ghost, seqList>>

\* ~SkipListAtomicSingleWriter(): clear(), after which the index is gone and
\* its thread makes no further call
destructor(t) ==
  /\ wr[t].pc = "idle"
  /\ \A r \in Readers : rd[r].pc \in {"idle", "done"}
  /\ LET st == ClearLoop(1, heads, [nodes |-> nodes, fault |-> FALSE])
     IN /\ nodes' = st.nodes
        /\ wr' = [wr EXCEPT ![t].pc = IF st.fault THEN "undefined" ELSE "destroyed"]
  /\ heads' = <<>>
  /\ rd' = Disturbed
  /\ UNCHANGED <<height, lastv, started, ghost, seqList>>

\* upsert(k, v) on an index without levels: heads[0] of an empty vector is
\* undefined behaviour, after which nothing is known of the thread
upsertNoLevel(t, k, v) ==
  /\ wr[t].pc = "idle"
  /\ Len(heads) = 0
  /\ wr' = [wr EXCEPT ![t] = [WIdle EXCEPT !.pc = "undefined", !.k = k, !.v = v]]
  /\ UNCHANGED <<nodes, heads, height, rd, lastv, started, ghost, seqList>>

\* find(k) on an index without levels: heads[0] likewise
findNoLevel(t, k) ==
  /\ rd[t].pc \in {"idle", "done"}
  /\ Len(heads) = 0
  /\ rd' = [rd EXCEPT ![t] = [RIdle EXCEPT !.pc = "undefined", !.k = k]]
  /\ UNCHANGED <<nodes, heads, height, wr, lastv, started, ghost, seqList>>

\* the constructor takes a size_t: 0 is an argument like any other
InitLife == (\E h \in 0..MaxHeight : Constructed(h)) /\ ghost = {}

NextLife ==
  \/ Next
  \/ \E t \in Writers : clear(t)
  \/ \E t \in Writers, k \in Keys, v \in Vals : upsertNoLevel(t, k, v)
  \/ \E t \in Readers, k \in Keys : findNoLevel(t, k)

\* Spec with every height a size_t allows in the bound, and with clear
LifeSpec == InitLife /\ [][NextLife]_vars

\* ------------------------------------------------------- single-threaded
TallHeights == 1..(MaxHeight + 1)
InitTall == (\E h \in TallHeights : Constructed(h)) /\ ghost = {}

NextWriter ==
  \/ \E t \in Writers, k \in Keys, v \in Vals : upsert(t, k, v)
  \/ \E t \in Writers : WriterStep(t)

\* the writer thread alone (no find call is made), on towers one level higher
\* than those of Spec
WriterSpec == InitTall /\ [][NextWriter]_vars

\* upsert(k, v) of the sequential variant, run once the same call of the
\* lock-free variant has returned, with the outcomes rand() had in that call
seqUpsert ==
  /\ \A t \in Writers : wr[t].pc = "idle"
  /\ seqList.call # NoCall
  /\ Len(seqList.heads) >= 1
  /\ LET r == SeqUpsertRec(seqList.nodes, seqList.heads[1], seqList.call[1],
                           seqList.call[2], seqList.coins, 0)
     IN seqList' = [seqList EXCEPT !.nodes = r.nodes, !.call = NoCall,
                                   !.coins = r.coins, !.more = r.more]
  /\ UNCHANGED <<nodes, heads, height, wr, rd, lastv, started, ghost>>

InitSeq == (\E h \in TallHeights : Constructed(h)) /\ ghost = {"seq"}

NextSeq ==
  \/ \E t \in Writers, k \in Keys, v \in Vals : upsert(t, k, v)
  \/ \E t \in Writers : WriterStep(t)
  \/ seqUpsert

\* one thread that makes every upsert call on an index of each variant, first
\* on the lock-free one, on towers of up to MaxHeight+1 levels
SeqSpec == InitSeq /\ [][NextSeq]_vars

\* clear() of the sequential variant
seqClear ==
  /\ seqList.live /\ seqList.call = NoCall
  /\ LET st == SeqClear(seqList.nodes, seqList.heads)
     IN seqList' = [seqList EXCEPT !.nodes = st.nodes, !.heads = <<>>,
                                   !.fault = @ \/ st.fault]
  /\ UNCHANGED <<nodes, heads, height, wr, rd, lastv, started, ghost>>

\* ~SkipList(): clear(), after which the index is gone
seqDestructor ==
  /\ seqList.live /\ seqList.call = NoCall
  /\ LET st == SeqClear(seqList.nodes, seqList.heads)
     IN seqList' = [seqList EXCEPT !.nodes = st.nodes, !.heads = <<>>,
                                   !.fault = @ \/ st.fault, !.live = FALSE]
  /\ UNCHANGED <<nodes, heads, height, wr, rd, lastv, started, ghost>>

InitClear == (\E h \in 0..(MaxHeight + 1) : Constructed(h)) /\ ghost = {"seq"}

NextClear ==
  \/ NextSeq
  \/ \E t \in Writers : clear(t)
  \/ \E t \in Writers : destructor(t)
  \/ seqClear
  \/ seqDestructor

\* SeqSpec with clear and the destructor of both variants, called any number of
\* times in any order between the upsert calls of the one thread, on towers of 0
\* to MaxHeight+1 levels
ClearSpec == InitClear /\ [][NextClear]_vars

\* --------------------------------------------------------- relaxed stores
\* a relaxed store into the v of node n reaches reader t
propagate(t, n) ==
  /\ n \in DOMAIN rd[t].cache
  /\ rd' = [rd EXCEPT ![t].cache = Free(rd[t].cache, n)]
  /\ UNCHANGED <<nodes, heads, height, wr, lastv, started, ghost, seqList>>

OneKey == {1}

NextRelaxed ==
  \/ \E t \in Writers, k \in OneKey, v \in Vals : upsert(t, k, v)
  \/ \E t \in Writers : WriterStep(t)
  \/ \E t \in Readers, k \in OneKey : findCall(t, k)
  \/ \E t \in Readers : ReaderStep(t)
  \/ \E t \in Readers : \E n \in DOMAIN rd[t].cache : propagate(t, n)

\* one writer and one reader working on one key, on towers of up to MaxHeight+1
\* levels; a relaxed store into the v of a published node reaches the reader at
\* any later time, in any order across nodes, at the latest with the next
\* release store
RelaxedSpec == InitRelaxed /\ [][NextRelaxed]_vars

\* ------------------------------------------------------------ the levels
\* the nodes a walk along next from n meets, n first (at most fuel of them)
RECURSIVE Chain(_, _)
Chain(n, fuel) ==
  IF n = nullptr \/ fuel = 0 THEN <<>> ELSE <<n>> \o Chain(nodes[n].next, fuel - 1)

\* level L (1 is the top level, heads[0] of the code) from its sentinel on
Level(L) == Chain(heads[L], Cardinality(DOMAIN nodes))
Levels == 1..Len(heads)
\* the set of nodes of each level
OnLevels == [L \in Levels |-> LET lv == Level(L) IN {lv[i] : i \in 1..Len(lv)}]
OnLevel(L) == OnLevels[L]
\* level L holds a node with key k
KeyOnLevel(k, L) == \E n \in OnLevel(L) : KeyIs(n, k)
\* the nodes ever allocated with key k
NodesOf(k) == {n \in DOMAIN nodes : KeyIs(n, k)}

\* the walk along next from n on heap h
RECURSIVE ChainOf(_, _, _)
ChainOf(h, n, fuel) ==
  IF n = nullptr \/ n \notin DOMAIN h \/ fuel = 0
  THEN <<>>
  ELSE <<n>> \o ChainOf(h, h[n].next, fuel - 1)

\* the place of node n in the sequence lv of nodes, 0 if it has none
PlaceIn(lv, n) ==
  IF \E i \in 1..Len(lv) : lv[i] = n THEN CHOOSE i \in 1..Len(lv) : lv[i] = n ELSE 0

\* the structure of an index, whatever the addresses of its nodes: per level,
\* the key and the value of each node in the order of the level, and the place
\* its down has on the level below (0 for nullptr)
Shape(h, hd) ==
  LET lv == [L \in 1..Len(hd) |-> ChainOf(h, hd[L], Cardinality(DOMAIN h))]
  IN [L \in 1..Len(hd) |->
        [i \in 1..Len(lv[L]) |->
           [k |-> h[lv[L][i]].k, v |-> h[lv[L][i]].v,
            down |-> IF h[lv[L][i]].down = nullptr THEN 0
                     ELSE IF L = Len(hd) THEN -1
                     ELSE PlaceIn(lv[L + 1], h[lv[L][i]].down)]]]

Quiesced == \A t \in Writers : wr[t].pc = "idle"
Upserted(k) == k \in Keys /\ HasValue(lastv[k])

\* ------------------------------------------------------------ two writers
TwoWriters == {"w1", "w2"}

\* the state after SkipListAtomicSingleWriter(h) with two threads that will
\* call upsert
InitTwo ==
  \E h \in Heights :
    /\ height = h
    /\ nodes = Construct(h).nodes
    /\ heads = Construct(h).heads
    /\ wr = [t \in TwoWriters |-> WIdle]
    /\ rd = [t \in Readers |-> RIdle]
    /\ started = [k \in Keys |-> {}]
    /\ lastv = [k \in Keys |-> nullopt]
    /\ seqList = SeqConstructed(h)
    /\ ghost = {}

\* every allocated node is reachable on a level: no insert was lost so far
NoneLost == \A n \in DOMAIN nodes : \E L \in Levels : n \in OnLevel(L)

\* each of the two threads calls upsert for a key no upsert was called for yet,
\* at any time; to keep the states few, a key is upserted again only by the
\* first thread, once every key is in the index with the value 1, none was lost
\* and the other thread is in no call
NextTwo ==
  \/ \E t \in TwoWriters, k \in Keys, v \in Vals :
       /\ \/ lastv[k] = nullopt
          \/ /\ t = "w1"
             /\ \A u \in TwoWriters : wr[u].pc = "idle"
             /\ \A j \in Keys : lastv[j] = Some(1)
             /\ NoneLost
       /\ upsert(t, k, v)
  \/ \E t \in TwoWriters : WriterStep(t)

\* the single-writer precondition dropped: two threads call upsert
TwoWriterSpec == InitTwo /\ [][NextTwo]_vars

\* --------------------------------------------------------------- claims
\* C1: on a quiesced index, find(k) of a key upserted at least once returns the
\* value of the most recent upsert(k, v), for every height and every coin flip
C1_FindReturnsLatest ==
  Quiesced => \A k \in Keys : Upserted(k) => find(k) = Returned(lastv[k])

\* a reader once read 1 for a key whose latest upsert wrote 2, on a tower of two
\* levels where the key was promoted to the top
C1_Witness ==
  /\ Quiesced
  /\ height = 2
  /\ \E t \in Readers :
       /\ rd[t].pc = "done"
       /\ rd[t].res = Returned(Some(1))
       /\ lastv[rd[t].k] = Some(2)
       /\ KeyOnLevel(rd[t].k, 1)
       /\ find(rd[t].k) = Returned(Some(2))

\* C2: find(k) returns absent for every key never upserted, in every state (also
\* while another key is being upserted), run to completion or by a reader
\* thread; the keys below, between and above the stored ones included
C2_FindAbsentIfNeverUpserted ==
  /\ \A k \in FindKeys : ~Upserted(k) => find(k) = Absent
  /\ \A t \in Readers :
       rd[t].pc = "done" /\ ~Upserted(rd[t].k) => rd[t].res = Absent

\* keys 1 and 3 are stored, 2 never was: find(2), find(0) and find(MaxKey + 1)
\* are absent, and a reader got absent for 2
C2_Witness ==
  /\ Upserted(1) /\ Upserted(3) /\ ~Upserted(2)
  /\ find(2) = Absent /\ find(0) = Absent /\ find(MaxKey + 1) = Absent
  /\ find(1) # Absent /\ find(3) # Absent
  /\ \E t \in Readers : rd[t].pc = "done" /\ rd[t].k = 2 /\ rd[t].res = Absent

\* C3: with one writer and concurrent readers, under every interleaving of the
\* loads and stores, a find(K) that returns a value returns one that an upsert(K, v)
\* already started was called with: never the value of another key, never the
\* value cell of a node nothing was stored into
C3_FindReturnsUpsertedValue ==
  \A t \in Readers :
    rd[t].pc = "done" /\ rd[t].res.has
      => rd[t].res.val \in {Some(v) : v \in started[rd[t].k]}

\* a reader got the old value 1 of a key while the writer is in the middle of
\* the upsert that writes 2 to it, and another key holds 2 already
C3_Witness ==
  \E t \in Readers, w \in Writers :
    /\ rd[t].pc = "done" /\ rd[t].res = Returned(Some(1))
    /\ wr[w].pc = "upsertRec" /\ wr[w].k = rd[t].k /\ wr[w].v = 2
    /\ started[rd[t].k] = {1, 2}
    /\ \E j \in Keys : j # rd[t].k /\ lastv[j] = Some(2) /\ started[j] = {2}

C5_SortedLevels ==
  LET on == OnLevels
  IN \A L \in Levels : \A n \in on[L] :
       HasValue(nodes[n].k) /\ nodes[n].next # nullptr
         => /\ HasValue(nodes[nodes[n].next].k)
            /\ Value(nodes[n].k) < Value(nodes[nodes[n].next].k)

\* between the two stores of chainNode on the top level, the new node going
\* between two nodes of the level, the bottom level holding MaxKey nodes
C5_Witness ==
  \E w \in Writers :
    /\ height = 2
    /\ wr[w].pc = "chainStore"
    /\ nodes[wr[w].newNode].down # nullptr
    /\ HasValue(nodes[wr[w].current].k)
    /\ nodes[wr[w].newNode].next # nullptr
    /\ Len(Level(2)) = MaxKey + 1

\* C6: in every reachable state, a key that has a node reachable on level L has a
\* node reachable on every level below L, down to the bottom level
C6_TowerPrefix ==
  LET on == OnLevels
  IN \A L \in Levels : \A n \in on[L] :
       HasValue(nodes[n].k)
         => \A M \in L..Len(heads) : \E m \in on[M] : nodes[m].k = nodes[n].k

\* an upsert that linked its key into the bottom level and is about to link it
\* into the top level, where another key already has a node
C6_Witness ==
  \E w \in Writers :
    /\ height = 2
    /\ wr[w].pc = "chainStore"
    /\ nodes[wr[w].newNode].down # nullptr
    /\ KeyOnLevel(wr[w].k, 2) /\ ~KeyOnLevel(wr[w].k, 1)
    /\ \E j \in Keys : j # wr[w].k /\ KeyOnLevel(j, 1)

\* the down of every node reachable on level L is nullptr or a node reachable on
\* level L+1 with the same key; a sentinel's down is the next level's sentinel
ColumnIntegrity ==
  LET on == OnLevels
  IN /\ \A L \in Levels :
          nodes[heads[L]].down = IF L < Len(heads) THEN heads[L + 1] ELSE nullptr
     /\ \A L \in Levels : \A n \in on[L] :
          nodes[n].down # nullptr
            => /\ L < Len(heads)
               /\ nodes[n].down \in on[L + 1]
               /\ nodes[nodes[n].down].k = nodes[n].k

\* no step changes the down of a node reachable on a level
DownFrozen ==
  \A L \in Levels : \A n \in OnLevel(L) : nodes'[n].down = nodes[n].down

\* C7: column integrity holds in every reachable state, and the down of a node
\* never changes once the node is linked into a level
C7_ColumnIntegrity == []ColumnIntegrity /\ [][DownFrozen]_vars

\* two keys have a node with a down on the top level and the writer is linking
\* a third one there
C7_Witness ==
  /\ height = 2
  /\ \E n1, n2 \in OnLevel(1) :
       /\ n1 # n2
       /\ HasValue(nodes[n1].k) /\ nodes[n1].down \in OnLevel(2)
       /\ HasValue(nodes[n2].k) /\ nodes[n2].down \in OnLevel(2)
  /\ \E w \in Writers :
       /\ wr[w].pc = "chainStore"
       /\ nodes[wr[w].newNode].down \in OnLevel(2)

InFind(t) == rd[t].pc \in {"findInLevel", "load"}

\* C8: every find call returns, whatever the writer does meanwhile, as long as
\* the reader itself keeps taking steps
C8_FindWaitFree == \A t \in Readers : InFind(t) ~> rd[t].pc = "done"

\* a reader that returned from a find which overlapped an upsert of its key,
\* while the writer is in the middle of a later upsert
C8_Witness ==
  \E t \in Readers, w \in Writers :
    /\ rd[t].pc = "done" /\ rd[t].res.has
    /\ rd[t].expect = nullopt
    /\ wr[w].pc = "chainStore"

\* no step of find changes a node or the set of nodes
FindFrame ==
  (\E t \in Readers : (\E k \in Keys : findCall(t, k)) \/ ReaderStep(t))
    => UNCHANGED <<nodes, heads>>

\* a find of the key of the reader's previous find, with no store of the writer
\* since that one started, returns what that one returned
FindPure ==
  \A t \in Readers :
    rd[t].pc = "done" /\ rd[t].clean /\ rd[t].prev.valid => rd[t].res = rd[t].prev.res

\* C9: find and findInLevel never modify the index, so repeated find(k) calls
\* with no writer step in between return the same result
C9_FindDoesNotModify == [][FindFrame]_vars /\ []FindPure

\* a second find of a key returned a value, as the first did, while the writer
\* stands between the two stores of chainNode
C9_Witness ==
  \E t \in Readers, w \in Writers :
    /\ rd[t].pc = "done" /\ rd[t].clean /\ rd[t].prev.valid
    /\ rd[t].res.has /\ rd[t].res = rd[t].prev.res
    /\ wr[w].pc = "chainStore"

\* C10: the index keeps exactly the levels built by the constructor, and every
\* key has at most one node per level and at most height nodes in all, the
\* nodes an upsert in flight has allocated included
C10_HeightCap ==
  LET on == OnLevels
  IN /\ heads = Construct(height).heads
     /\ Len(heads) = height
     /\ {n \in DOMAIN nodes : ~HasValue(nodes[n].k)} = {heads[L] : L \in Levels}
     /\ \A k \in Keys :
          /\ Cardinality(NodesOf(k)) <= height
          /\ \A L \in Levels : Cardinality(NodesOf(k) \cap on[L]) <= 1

\* every key was upserted, one has a node on each of the two levels, another
\* a leaf only, and the upsert that promoted to the top level has returned
C10_Witness ==
  /\ Quiesced
  /\ height = 2
  /\ \A k \in Keys : Upserted(k)
  /\ \E k \in Keys : Cardinality(NodesOf(k)) = height /\ KeyOnLevel(k, 1)
  /\ \E k \in Keys : Cardinality(NodesOf(k)) = 1

Undefined(t) ==
  \/ t \in Writers /\ wr[t].pc = "undefined"
  \/ t \in Readers /\ rd[t].pc = "undefined"

\* C11: across any sequence of upsert, find and clear calls, the head of each of
\* the levels the constructor built is a sentinel that is still allocated and
\* has neither a key nor a value
C11_SentinelBase ==
  /\ heads = Construct(height).heads
  /\ \A L \in 1..height :
       /\ heads[L] \in DOMAIN nodes
       /\ nodes[heads[L]].k = nullopt
       /\ nodes[heads[L]].v = nullopt

\* C12: no upsert or find call ever runs on an index constructed with height 0
C12_HeightZeroRejected ==
  height = 0 => \A t \in Writers \cup Readers : ~Undefined(t)

\* every non-sentinel node reachable on a level has its key and its value, and a
\* down exactly when the level is not the bottom one
Initialised ==
  LET on == OnLevels
  IN \A L \in Levels : \A n \in on[L] \ {heads[L]} :
       /\ HasValue(nodes[n].k)
       /\ HasValue(nodes[n].v)
       /\ (nodes[n].down = nullptr) = (L = Len(heads))

\* a node that a step makes reachable on a level comes right after a node p that
\* was reachable there, and its next is what the next of p was before the step
PublishedWhole ==
  \A L \in Levels : \A n \in OnLevel(L)' \ OnLevel(L) :
    \E p \in OnLevel(L) : nodes'[p].next = n /\ nodes'[n].next = nodes[p].next

\* C13: every node a reader can reach from a sentinel has its key, value and down
\* set, and at the step that makes it reachable its next is already the node that
\* followed its predecessor
C13_SafePublication == []Initialised /\ [][PublishedWhole]_vars

\* a reader stands on the leaf that the writer has just linked in between two
\* nodes of the bottom level, the upsert being at its coin flip for the top level
C13_Witness ==
  \E t \in Readers, w \in Writers :
    /\ height = 2
    /\ wr[w].pc = "promote"
    /\ rd[t].pc \in {"findInLevel", "load"}
    /\ rd[t].current = wr[w].newNode
    /\ rd[t].current \in OnLevel(2)
    /\ nodes[rd[t].current].next # nullptr
    /\ \E p \in OnLevel(2) : HasValue(nodes[p].k) /\ nodes[p].next = rd[t].current

\* C14: a find(k) that ends before the store that links the leaf of a new key k
\* into the bottom level returns absent, and a find(k) that starts after that
\* store (and ends before the next upsert of k starts) returns the inserted
\* value, also while the inserting upsert is promoting k
C14_InsertLinearization ==
  \A t \in Readers :
    rd[t].pc = "done"
      => /\ ~KeyOnLevel(rd[t].k, Len(heads)) => rd[t].res = Absent
         /\ HasValue(rd[t].lin) => rd[t].res = Returned(rd[t].lin)

\* a find that started after the leaf was linked in has returned the inserted
\* value while the same upsert is about to link the key into the top level,
\* which the reader passed before
C14_Witness ==
  \E t \in Readers, w \in Writers :
    /\ rd[t].pc = "done" /\ HasValue(rd[t].lin) /\ rd[t].res = Returned(rd[t].lin)
    /\ wr[w].pc = "chainStore" /\ wr[w].k = rd[t].k
    /\ nodes[wr[w].newNode].down # nullptr
    /\ ~KeyOnLevel(rd[t].k, 1)

\* a node that a step links into a level above the bottom has as its down a node
\* that was reachable on the level below before the step
BottomUp ==
  \A L \in Levels : \A n \in OnLevel(L)' \ OnLevel(L) :
    L < Len(heads) => n \in DOMAIN nodes /\ nodes[n].down \in OnLevel(L + 1)

\* when an upsert returns, its key has a node on the bottom level
LeafAlways ==
  \A w \in Writers : \A k \in Keys :
    wr[w].pc # "idle" /\ wr[w].k = k /\ wr'[w].pc = "idle"
      => KeyOnLevel(k, Len(heads))'

\* a coin flip that creates no node ends the upsert
DeclineEnds ==
  \A w \in Writers :
    wr[w].pc = "promote" /\ wr'[w] # wr[w] /\ nodes' = nodes => wr'[w].pc = "idle"

\* a node is created for a key only as the leaf of a key that has none, or at a
\* coin flip for the level right above the node the upsert linked in last
CreatedInOrder ==
  \A k \in Keys :
    NodesOf(k)' # NodesOf(k)
      => \E w \in Writers : \E L \in Levels :
           /\ wr[w].k = k
           /\ wr[w].current \in OnLevel(L)
           /\ \/ wr[w].pc = "upsertRec" /\ L = Len(heads) /\ NodesOf(k) = {}
              \/ /\ wr[w].pc = "promote" /\ L < Len(heads)
                 /\ wr[w].newNode \in OnLevel(L + 1)
                 /\ Cardinality(NodesOf(k)) = Len(heads) - L

\* C15: within one upsert of a new key the nodes are linked in bottom-up, the
\* leaf always, and once a coin flip declines no further node of the key is
\* created, at that level or above
C15_BottomUpPublication ==
  [][BottomUp /\ LeafAlways /\ DeclineEnds /\ CreatedInOrder]_vars

\* on a tower of three levels an upsert is linking its key into the top level,
\* after the bottom and the middle one, while another key, whose upsert has
\* returned, stopped at the middle level and a third at the bottom
C15_Witness ==
  \E w \in Writers :
    /\ height = 3
    /\ wr[w].pc = "chainStore" /\ wr[w].current \in OnLevel(1)
    /\ KeyOnLevel(wr[w].k, 2) /\ KeyOnLevel(wr[w].k, 3)
    /\ \E j \in Keys : Cardinality(NodesOf(j)) = 2 /\ j # wr[w].k
    /\ \E j \in Keys : Cardinality(NodesOf(j)) = 1

\* writer w is in an upsert of a key that was present when the call started: an
\* upsert that inserts its key has left findInLevel and the tests of upsertRec
\* for good when it links the leaf in
UpdateInFlight(w) ==
  /\ wr[w].pc \in {"findInLevel", "upsertRec"}
  /\ KeyOnLevel(wr[w].k, Len(heads))

\* a step of an upsert of a present key creates no node, changes no next, down or
\* key, and stores nothing but the value v of the call into nodes of its key
UpdateFrame ==
  \A w \in Writers : \A k \in Keys : \A v \in Vals :
    UpdateInFlight(w) /\ wr[w].k = k /\ wr[w].v = v /\ wr'[w] # wr[w]
      => /\ DOMAIN nodes' = DOMAIN nodes
         /\ heads' = heads
         /\ \A n \in DOMAIN nodes :
              /\ nodes'[n].next = nodes[n].next
              /\ nodes'[n].down = nodes[n].down
              /\ nodes'[n].k = nodes[n].k
              /\ nodes'[n].v # nodes[n].v => KeyIs(n, k) /\ nodes'[n].v = Some(v)
         /\ wr'[w].pc \in {"findInLevel", "upsertRec", "idle"}
         /\ wr'[w].pc = "idle" => \A n \in NodesOf(k) : nodes'[n].v = Some(v)

\* C16: an upsert(k, v) of a present key creates no node and changes no next or
\* down, never comes to a coin flip, and has written v into every node of k's
\* column when it returns
C16_UpdateInPlace == [][UpdateFrame]_vars

\* on a tower of three levels the update of a key with a node on every level
\* has written the new value into the top and the middle node and is about to
\* write the leaf, which holds the old value
C16_Witness ==
  \E w \in Writers :
    /\ height = 3
    /\ UpdateInFlight(w) /\ wr[w].pc = "upsertRec"
    /\ wr[w].current \in OnLevel(3) /\ KeyIs(wr[w].current, wr[w].k)
    /\ Len(wr[w].stack) = 2
    /\ \A i \in 1..2 : wr[w].stack[i].update
                        /\ nodes[wr[w].stack[i].node].v = Some(wr[w].v)
    /\ nodes[wr[w].current].v # Some(wr[w].v)

\* C17: the writer being in the update of a key from an old to a new value, a
\* reader gets the new value from one find and the old one from a find it
\* starts afterwards (C17_Witness); this takes two nodes of the key's column:
\* two finds that load the same node never go from the latest value back
C17_UpdateNotLinearizable ==
  \A t \in Readers :
    rd[t].pc = "done" /\ rd[t].before.new /\ rd[t].res # Returned(lastv[rd[t].k])
      => rd[t].res.has /\ rd[t].got.node # rd[t].before.node

\* on a tower of three levels the writer has stored the new value into the top
\* and the middle node of the key and is about to store it into the leaf; the
\* reader got the new value from a find that loaded the middle node, and then
\* the value the leaf still holds from a find, started after that one returned,
\* that loaded the top node
C17_Witness ==
  \E t \in Readers, w \in Writers :
    /\ height = 3
    /\ UpdateInFlight(w) /\ wr[w].pc = "upsertRec" /\ wr[w].k = rd[t].k
    /\ wr[w].current \in OnLevel(3)
    /\ nodes[wr[w].current].v # Some(wr[w].v)
    /\ rd[t].pc = "done" /\ rd[t].before.new
    /\ rd[t].res = Found(wr[w].current)
    /\ rd[t].res # Returned(lastv[rd[t].k])
    /\ rd[t].before.node \in OnLevel(2) /\ rd[t].got.node \in OnLevel(1)

\* findInLevel(start, k) on level L, start being the i-th node of the level: it
\* returns the j-th node, j >= i, and the nodes after start with a key <= k are
\* exactly those up to the j-th; so it is start when no such node exists, its
\* key is <= k otherwise, and its next is null or has a greater key
RightmostFrom(L, i, k) ==
  LET lv == Level(L)
      R == findInLevel(lv[i], k)
  IN /\ \E j \in i..Len(lv) :
          /\ lv[j] = R
          /\ \A m \in (i + 1)..Len(lv) : (Value(nodes[lv[m]].k) <= k) = (m <= j)
     /\ R = lv[i] \/ (HasValue(nodes[R].k) /\ Value(nodes[R].k) <= k)
     /\ nodes[R].next = nullptr \/ Value(nodes[nodes[R].next].k) > k
     /\ (\A m \in (i + 1)..Len(lv) : Value(nodes[lv[m]].k) > k) => R = lv[i]

\* C18: on every level, findInLevel(start, k) with start the sentinel or a node
\* with a key <= k returns the rightmost node R with R = start or R.key <= k; its
\* next is null or has a key > k, and R is start when every key after start is
\* greater than k.  The levels of every reachable state are taken, those of the
\* states with no upsert in flight among them.
C18_FindInLevelRightmost ==
  \A L \in Levels : \A i \in 1..Len(Level(L)) : \A k \in FindKeys :
    i = 1 \/ Value(nodes[Level(L)[i]].k) <= k => RightmostFrom(L, i, k)

\* no upsert is in flight and the bottom level of a tower of three levels holds
\* the keys 1, 2 and 3: from the sentinel findInLevel returns the sentinel for 0
\* and the node of 2 for 2, and from the node of 1 it returns that node for 1 and
\* the node of 3 for MaxKey + 1
C18_Witness ==
  /\ Quiesced /\ height = 3
  /\ Len(Level(3)) = 4
  /\ findInLevel(heads[3], 0) = heads[3]
  /\ KeyIs(findInLevel(heads[3], 2), 2)
  /\ findInLevel(Level(3)[2], 1) = Level(3)[2]
  /\ findInLevel(Level(3)[2], MaxKey + 1) = Level(3)[4]
  /\ Len(Level(1)) = 2 /\ KeyIs(findInLevel(heads[1], 3), 2)

\* C19: with height 1 no upsert comes to a coin flip or recurses, no node has a
\* down, every key has one node once its first upsert has linked it in (none
\* before, never two), the one level holds them in order, and with no upsert in
\* flight find returns the latest upserted value of a key and absent for the
\* other keys
C19_HeightOne ==
  height = 1
    => /\ \A w \in Writers : wr[w].pc # "promote" /\ wr[w].stack = <<>>
       /\ \A n \in DOMAIN nodes : nodes[n].down = nullptr
       /\ \A k \in Keys :
            /\ Cardinality(NodesOf(k)) <= 1
            /\ Upserted(k) /\ (\A w \in Writers : wr[w].pc = "idle" \/ wr[w].k # k)
                 => Cardinality(NodesOf(k)) = 1 /\ KeyOnLevel(k, 1)
       /\ \A i \in 2..(Len(Level(1)) - 1) :
            Value(nodes[Level(1)[i]].k) < Value(nodes[Level(1)[i + 1]].k)
       /\ Quiesced
            => \A k \in FindKeys :
                 find(k) = IF Upserted(k) THEN Returned(lastv[k]) ELSE Absent

\* a tower of one level holds the keys 1 and 3, 3 with the value of its second
\* upsert, and a reader got absent for 2
C19_Witness ==
  /\ height = 1 /\ Quiesced
  /\ Len(Level(1)) = 3
  /\ Upserted(1) /\ Upserted(3) /\ ~Upserted(2)
  /\ find(3) = Returned(Some(2)) /\ find(2) = Absent
  /\ \E t \in Readers :
       rd[t].pc = "done" /\ rd[t].k = 3 /\ rd[t].res = Returned(Some(1))

InUpsert(w) == wr[w].pc # "idle"

\* the steps writer w has at most left in its upsert: on the way down, for the
\* level it is on the nodes to the right of current and for every level below a
\* whole level (at most MaxKey nodes and the sentinel); on the way up, a coin
\* flip and the two stores of chainNode per level above
StepsLeft(w) ==
  LET L == Len(wr[w].stack) + 1
      perLevel == MaxKey + 3
      down == 3 * height + (height - L) * perLevel
  IN CASE wr[w].pc = "findInLevel" ->
            down + Len(Chain(wr[w].current, Cardinality(DOMAIN nodes))) + 1
       [] wr[w].pc = "upsertRec" -> down + 1
       [] wr[w].pc = "promote" -> 3 * (L - 1) + 3
       [] wr[w].pc = "chainLoad" -> 3 * (L - 1) + 2
       [] wr[w].pc = "chainStore" -> 3 * (L - 1) + 1
       [] OTHER -> 0

\* every step of a writer inside upsert brings it closer to the return, and no
\* step of another thread takes it further away
Advances ==
  \A w \in Writers :
    InUpsert(w)
      => /\ StepsLeft(w)' <= StepsLeft(w)
         /\ wr'[w] # wr[w] => StepsLeft(w)' < StepsLeft(w)

\* C20: a writer inside upsert can take its next step in every state, wherever
\* the readers stand, and each of its steps lowers a bound on the steps left
\* (one descent through the levels, one ascent), which no reader step raises:
\* the call returns after finitely many steps of the writer
C20_WriterProgress ==
  /\ [](\A w \in Writers : InUpsert(w) => ENABLED <<WriterStep(w)>>_vars)
  /\ [][Advances]_vars

\* the writer is about to store into the next of the node a reader in find
\* stands on, on the top level of a tower of two levels
C20_Witness ==
  \E w \in Writers, t \in Readers :
    /\ height = 2
    /\ wr[w].pc = "chainStore" /\ wr[w].stack = <<>>
    /\ rd[t].pc = "findInLevel" /\ rd[t].current = wr[w].current
    /\ HasValue(nodes[wr[w].current].k)

\* a step of an upsert leaves every key j other than the key of the call with its
\* nodes, each of them with its value and its down and on the levels it was on,
\* and with the value of its latest upsert
OtherKeysFrame ==
  LET on == OnLevels
      after == OnLevels'
  IN \A j \in Keys :
       (\A w \in Writers : wr[w].k # j /\ wr'[w].k # j)
         => /\ NodesOf(j)' = NodesOf(j)
            /\ lastv'[j] = lastv[j]
            /\ \A n \in NodesOf(j) :
                 /\ nodes'[n].v = nodes[n].v
                 /\ nodes'[n].down = nodes[n].down
                 /\ \A L \in Levels : (n \in after[L]) = (n \in on[L])

\* in every state, those in the middle of an upsert of another key included,
\* find(j) is the value of the latest upsert of j, or absent if there was none
FindOfOthers ==
  \A j \in FindKeys :
    (\A w \in Writers : wr[w].k # j)
      => find(j) = IF Upserted(j) THEN Returned(lastv[j]) ELSE Absent

\* C22: no step of upsert(k, v), from the call to the return, changes for a key
\* j # k the levels j has a node on or the value in any node of j, whether the
\* call inserts k or updates it; find(j) is determined by the latest upsert of j
\* in every state on the way, so it returns the same before, during and after
C22_OtherKeysUntouched == [][OtherKeysFrame]_vars /\ []FindOfOthers

\* on a tower of three levels key 2 is being linked into the top level between
\* the nodes of 1 and 3, which hold different values and have a node on every
\* level
C22_Witness ==
  \E w \in Writers :
    /\ height = 3
    /\ wr[w].pc = "chainStore" /\ wr[w].k = 2 /\ wr[w].stack = <<>>
    /\ KeyIs(wr[w].current, 1)
    /\ nodes[wr[w].newNode].next # nullptr /\ KeyIs(nodes[wr[w].newNode].next, 3)
    /\ Cardinality(NodesOf(1)) = 3 /\ Cardinality(NodesOf(3)) = 3
    /\ find(1) = Returned(Some(1)) /\ find(3) = Returned(Some(2))

\* no step takes a node off a level it is reachable on, releases a node, or
\* changes the key of a node
StaysLinked ==
  LET on == OnLevels
      after == OnLevels'
  IN /\ Len(heads') = Len(heads)
     /\ DOMAIN nodes \subseteq DOMAIN nodes'
     /\ \A L \in Levels : on[L] \subseteq after[L]
     /\ \A n \in DOMAIN nodes : nodes'[n].k = nodes[n].k

\* a reader inside find stands on a node that is allocated and reachable on a
\* level, and the next it is about to load is null or an allocated node
ReaderCanContinue ==
  LET on == OnLevels
  IN \A t \in Readers :
       InFind(t)
         => /\ rd[t].current \in DOMAIN nodes
            /\ \E L \in Levels : rd[t].current \in on[L]
            /\ nodes[rd[t].current].next \in DOMAIN nodes \cup {nullptr}
            /\ nodes[rd[t].current].down \in DOMAIN nodes \cup {nullptr}

\* C23: with no clear, a node reachable from the sentinel of its level stays
\* reachable from it and allocated in every later state, under every
\* interleaving of the writer's and the reader's steps, and a reader inside find
\* always stands on such a node
C23_NeverUnlinked == [][StaysLinked]_vars /\ []ReaderCanContinue

\* a reader stands on the node of key 3 on the bottom level of a tower of two
\* levels, and the writer has just linked the leaf of key 2 in right before it
C23_Witness ==
  \E t \in Readers, w \in Writers :
    /\ height = 2
    /\ rd[t].pc = "findInLevel" /\ KeyIs(rd[t].current, 3)
    /\ rd[t].current \in OnLevel(2)
    /\ wr[w].pc = "promote" /\ wr[w].k = 2
    /\ wr[w].newNode \in OnLevel(2)
    /\ nodes[wr[w].newNode].next = rd[t].current

\* no upsert is in flight in either variant: both have run the same calls
Synced == Quiesced /\ seqList.call = NoCall

\* C21: after every upsert call made on both variants by one thread, with the
\* same outcomes of rand(), the two have the same keys and values in the same
\* order on every level and the same columns, find returns the same for every
\* key, and the sequential variant has called rand() exactly as often
C21_SequentialEquivalent ==
  Synced
    => /\ Shape(seqList.nodes, seqList.heads) = Shape(nodes, heads)
       /\ \A k \in FindKeys : SeqFind(seqList.nodes, seqList.heads, k) = find(k)
       /\ seqList.coins = <<>> /\ seqList.more = 0

\* both variants have run inserts and an update on a tower of three levels: one
\* key has a node on every level, one on two, one on the bottom only, and a key
\* holds the value of its second upsert
C21_Witness ==
  /\ Synced /\ height = 3
  /\ Cardinality(NodesOf(1)) = 1 /\ Cardinality(NodesOf(2)) = 3
  /\ Cardinality(NodesOf(3)) = 2
  /\ find(2) = Returned(Some(2))
  /\ SeqFind(seqList.nodes, seqList.heads, 2) = Returned(Some(2))
  /\ find(1) = Returned(Some(1))
  /\ Cardinality(DOMAIN seqList.nodes) = 9
  /\ Len(Shape(seqList.nodes, seqList.heads)[1]) = 2

\* no clear and no destructor has deleted, or loaded from, a released node
NoFault == (\A t \in Writers : wr[t].pc # "undefined") /\ ~seqList.fault

\* an index without levels, which is what clear and the destructor leave, has
\* no node left
ReleasedAll ==
  /\ Len(heads) = 0 => DOMAIN nodes = {}
  /\ Len(seqList.heads) = 0 => DOMAIN seqList.nodes = {}

\* a step that releases a node is one of an index no call is in flight on, and
\* releases them all; nothing is released on an index without levels
ReleasedAtOnce ==
  /\ ~(DOMAIN nodes \subseteq DOMAIN nodes')
       => Quiesced /\ Len(heads) >= 1 /\ DOMAIN nodes' = {} /\ heads' = <<>>
  /\ ~(DOMAIN seqList.nodes \subseteq DOMAIN seqList.nodes')
       => /\ seqList.call = NoCall /\ Len(seqList.heads) >= 1
          /\ DOMAIN seqList.nodes' = {} /\ seqList.heads' = <<>>

\* C24: in both variants clear and the destructor, run with no call in flight,
\* release every node of every level, none twice and none after a load from a
\* released node; run again after a clear they find no level and release
\* nothing
C24_ReleasedOnce == [](NoFault /\ ReleasedAll) /\ [][ReleasedAtOnce]_vars

\* three keys were upserted into a tower of three levels of both variants; the
\* lock-free one was cleared and then destroyed, the sequential one was cleared
\* and can be cleared again or destroyed
C24_Witness ==
  /\ height = 3
  /\ \A k \in Keys : Upserted(k)
  /\ \A t \in Writers : wr[t].pc = "destroyed"
  /\ heads = <<>> /\ DOMAIN nodes = {}
  /\ seqList.live /\ seqList.call = NoCall
  /\ seqList.heads = <<>> /\ DOMAIN seqList.nodes = {}

\* thread w is about to store into previous->next in chainNode, and another
\* thread has stored there since w loaded it
StaleStore(w) == wr[w].pc = "chainStore" /\ wr[w].stale

\* as long as no other thread stored into previous->next, newNode->next holds
\* what previous->next holds
FreshLoad ==
  \A w \in DOMAIN wr :
    wr[w].pc = "chainStore" /\ ~wr[w].stale
      => nodes[wr[w].newNode].next = nodes[wr[w].current].next

\* a node leaves a level exactly in the step of the store of a chainNode whose
\* load is stale and whose previous is on the level
LostByStaleStore ==
  LET on == OnLevels
      after == OnLevels'
  IN \A L \in Levels :
       ~(on[L] \subseteq after[L])
         <=> \E w \in DOMAIN wr :
               StaleStore(w) /\ wr'[w] # wr[w] /\ wr[w].current \in on[L]

\* C25: with two threads in upsert for different new keys, the load and the
\* store of chainNode being two steps, a key is lost (both calls have returned
\* and find of the key is absent: C25_Witness); a node is taken off a level by,
\* and only by, the store of a chainNode between whose load and store another
\* thread stored into the same previous->next
C25_TwoWritersLoseInsert == []FreshLoad /\ [][LostByStaleStore]_vars

\* both threads have returned from their upserts of the keys 1 and 3, find(3)
\* returns the value, and key 1, whose leaf is allocated, is on no level: find(1)
\* returns absent
C25_Witness ==
  /\ \A t \in TwoWriters : t \in DOMAIN wr /\ wr[t].pc = "idle"
  /\ Upserted(1) /\ Upserted(3) /\ ~Upserted(2)
  /\ find(3) = Returned(lastv[3])
  /\ NodesOf(1) # {}
  /\ \A L \in Levels : ~KeyOnLevel(1, L)
  /\ find(1) = Absent
====
